---------------------------- MODULE Spec2Model ----------------------------
(***************************************************************************)
(* Betterbox: a client that mirrors a directory to a server over RPC.      *)
(*                                                                         *)
(* The client (src/cmd/client/main.go, package betterbox from line 30 on)  *)
(* walks its directory, batches Requests and sends them; it then turns     *)
(* fsnotify events into Requests.  The server (src/README.md, package      *)
(* betterbox from line 33 on) validates and applies each Request.          *)
(*                                                                         *)
(* A path string is a sequence of bytes (Slash = '/', Dot = '.'); a file   *)
(* system is a function from clean absolute path strings to nodes.         *)
(***************************************************************************)
EXTENDS Integers, Sequences, FiniteSets, TLC

(***************************************************************************)
(* Bounds of the model.                                                    *)
(***************************************************************************)
MaxPathLen == 4        \* longest request path string drawn in SpecApply
MaxData == 1           \* file contents are 0 (empty) .. MaxData
MaxConnFail == 1       \* connections that fail or are lost in one behaviour
MaxEdits == 1          \* edits of the client's tree in one behaviour of Spec
MaxSteadyEdits == 2    \* edits of the client's tree in SpecSteady
MaxLiveEdits == 1      \* edits of the client's tree in SpecLive
MaxMonitorEdits == 2   \* edits of the client's tree in SpecMonitor
MaxOther == 1          \* requests that arrive on other connections in SpecServe
MaxQueue == 2          \* events waiting in the watcher's channel
MaxWalkFiles == 250    \* files of the flat tree of SpecBatch
MaxFailFiles == 110    \* files of the flat tree of SpecWalkFail
MaxMainFiles == 2      \* files of the flat tree of SpecMain
MaxStream == 101       \* writes of the event stream of SpecBatch

(***************************************************************************)
(* Bytes.                                                                  *)
(***************************************************************************)
Slash == 47
Dot == 46

(***************************************************************************)
(* path/filepath (Unix): Clean, Join, Rel, Dir as the library computes     *)
(* them, on byte sequences.                                                *)
(***************************************************************************)
RECURSIVE Segments(_)
Segments(s) ==
    IF s = <<>> THEN << <<>> >>
    ELSE LET rest == Segments(Tail(s)) IN
         IF Head(s) = Slash THEN << <<>> >> \o rest
         ELSE << <<Head(s)>> \o Head(rest) >> \o Tail(rest)

RECURSIVE JoinSegs(_)
JoinSegs(segs) ==
    IF segs = <<>> THEN <<>>
    ELSE IF Len(segs) = 1 THEN Head(segs)
    ELSE Head(segs) \o <<Slash>> \o JoinSegs(Tail(segs))

IsRooted(path) == path # <<>> /\ path[1] = Slash

RECURSIVE CleanSegs(_, _, _)
CleanSegs(segs, out, rooted) ==
    IF segs = <<>> THEN out
    ELSE LET s == Head(segs)
             rest == Tail(segs) IN
         IF s = <<>> \/ s = <<Dot>> THEN CleanSegs(rest, out, rooted)
         ELSE IF s = <<Dot, Dot>> THEN
              IF out # <<>> /\ out[Len(out)] # <<Dot, Dot>>
              THEN CleanSegs(rest, SubSeq(out, 1, Len(out) - 1), rooted)
              ELSE IF rooted THEN CleanSegs(rest, out, rooted)
              ELSE CleanSegs(rest, Append(out, s), rooted)
         ELSE CleanSegs(rest, Append(out, s), rooted)

Clean(path) ==
    LET body == JoinSegs(CleanSegs(Segments(path), <<>>, IsRooted(path)))
        r == (IF IsRooted(path) THEN <<Slash>> ELSE <<>>) \o body
    IN IF r = <<>> THEN <<Dot>> ELSE r

Join(a, b) == Clean(a \o <<Slash>> \o b)

\* filepath.Dir of a clean absolute path.
Dir(p) ==
    LET segs == CleanSegs(Segments(p), <<>>, TRUE) IN
    IF segs = <<>> THEN <<Slash>>
    ELSE <<Slash>> \o JoinSegs(SubSeq(segs, 1, Len(segs) - 1))

IsPrefix(a, b) == Len(a) <= Len(b) /\ SubSeq(b, 1, Len(a)) = a

\* p lies strictly beneath directory d (both clean and absolute).
Beneath(p, d) ==
    IF d = <<Slash>> THEN p # d /\ IsRooted(p)
    ELSE IsPrefix(d \o <<Slash>>, p)

\* filepath.Rel(base, target) for a target beneath base.
Rel(base, target) == SubSeq(target, Len(base) + 2, Len(target))

(***************************************************************************)
(* File systems.                                                           *)
(***************************************************************************)
RootDir == <<Slash>>
DirNode == [isDir |-> TRUE, data |-> 0]
FileNode(d) == [isDir |-> FALSE, data |-> d]

Exists(fs, p) == p \in DOMAIN fs
IsDirAt(fs, p) == p \in DOMAIN fs /\ fs[p].isDir
IsFileAt(fs, p) == p \in DOMAIN fs /\ ~fs[p].isDir

Restrict(fs, S) == [p \in S |-> fs[p]]
Put(fs, p, node) == [q \in DOMAIN fs \cup {p} |-> IF q = p THEN node ELSE fs[q]]

\* The parent of p cannot be searched: it is missing or is not a directory.
NoParent(fs, p) == ~IsDirAt(fs, Dir(p))

\* A component of p before the last is a regular file (ENOTDIR).
ThroughFile(fs, p) == \E q \in DOMAIN fs : IsFileAt(fs, q) /\ Beneath(p, q)

\* A mutant of OsMkdir that behaves as os.MkdirAll: an existing directory is
\* no error and missing parents are created.
OsMkdirAll(fs, p) ==
    IF IsDirAt(fs, p) THEN [fs |-> fs, err |-> ""]
    ELSE IF Exists(fs, p) \/ ThroughFile(fs, p) THEN [fs |-> fs, err |-> "not a directory"]
    ELSE [fs |-> [q \in DOMAIN fs \cup {r \in {SubSeq(p, 1, n) : n \in 2..Len(p)} :
                                           r = p \/ IsPrefix(r \o <<Slash>>, p)} |->
                    IF q \in DOMAIN fs THEN fs[q] ELSE DirNode],
          err |-> ""]

\* os.Mkdir
OsMkdir(fs, p) ==
    IF Exists(fs, p) THEN [fs |-> fs, err |-> "file exists"]
    ELSE IF NoParent(fs, p) THEN [fs |-> fs, err |-> "no such file or directory"]
    ELSE [fs |-> Put(fs, p, DirNode), err |-> ""]

\* ioutil.WriteFile: open with O_WRONLY|O_CREATE|O_TRUNC, write, close.
WriteFile(fs, p, data) ==
    IF IsDirAt(fs, p) THEN [fs |-> fs, err |-> "is a directory"]
    ELSE IF NoParent(fs, p) THEN [fs |-> fs, err |-> "no such file or directory"]
    ELSE [fs |-> Put(fs, p, FileNode(data)), err |-> ""]

\* os.RemoveAll: removes p and everything beneath it; nil when p is absent.
\* The file system's root cannot be unlinked.  When a component of p is a
\* regular file the call fails with ENOTDIR, which releases of Go before
\* 1.12 report as nil and later ones as an error: both outcomes are kept.
RemoveAll(fs, p) ==
    IF p = RootDir
    THEN {[fs |-> Restrict(fs, {RootDir}), err |-> "device or resource busy"]}
    ELSE IF ThroughFile(fs, p)
    THEN {[fs |-> fs, err |-> ""], [fs |-> fs, err |-> "not a directory"]}
    ELSE {[fs |-> Restrict(fs, {q \in DOMAIN fs : q # p /\ ~Beneath(q, p)}),
           err |-> ""]}

(***************************************************************************)
(* Messages.  The Request and Response types and their constants come from *)
(* commands.proto, which is not among the source files; they are modelled  *)
(* from the data model of the specification.                               *)
(***************************************************************************)
requestMkdir == "Mkdir"
requestCreate == "Create"
requestRemove == "Remove"
requestOther == "Other"       \* any Type value outside the three kinds
responseOk == "Ok"
responseErr == "Err"

Request(type, path, data) == [Type |-> type, Path |-> path, Data |-> data]
Response(type, msg) == [Type |-> type, Message |-> msg]

\* The value of "var resp Response" before a call fills it in.
ZeroResponse == Response(responseOk, "")

(***************************************************************************)
(* The server.                                                             *)
(***************************************************************************)
\* sv.path: the server's synchronisation root, "/h/r".
svPath == <<Slash, 104, Slash, 114>>

\* The server's machine before the first request: the empty root, its
\* parent, and a file beside the root.
ServerInitFs ==
    LET h == <<Slash, 104>>
        o == <<Slash, 104, Slash, 120>>
    IN [p \in {RootDir, h, svPath, o} |->
            IF p = o THEN FileNode(1) ELSE DirNode]

\* A mutant of validateRequest that accepts every path.
validateNothing(req) == ""

\* validateRequest: "" for nil, else the error's text.
validateRequest(req) ==
    IF req.Path = <<>> THEN "Missing request path"
    ELSE IF req.Path # Clean(req.Path) THEN "Erroneous path value"
    ELSE ""

\* ApplyRequest: the outcomes [fs, resp, ret] of applying req to fs; ret is
\* the function's own return value, the error net/rpc would report.
ApplyRequest(fs, req) ==
    LET verr == validateRequest(req)
        absPath == Join(svPath, req.Path)
        outs == CASE req.Type = requestMkdir -> {OsMkdir(fs, absPath)}
                  [] req.Type = requestCreate -> {WriteFile(fs, absPath, req.Data)}
                  [] req.Type = requestRemove -> RemoveAll(fs, absPath)
                  [] OTHER -> {[fs |-> fs, err |-> "Unhandled request"]}
    IN IF verr # ""
       THEN {[fs |-> fs, resp |-> Response(responseErr, verr), ret |-> "nil"]}
       ELSE {[fs |-> o.fs,
              resp |-> IF o.err # "" THEN Response(responseErr, o.err)
                       ELSE Response(responseOk, ""),
              ret |-> "nil"] : o \in outs}

(***************************************************************************)
(* The client.                                                             *)
(***************************************************************************)
requestsBufferSize == 100

\* c.path: the client's directory, "/c".
cPath == <<Slash, 99>>

Data == 0..MaxData
ClientNames == {97, 98}

\* Every byte a file name of the model consists of, in increasing order
\* (names are one byte long; '.' and '/' name no file).
NameBytes == SelectSeq([i \in 1..255 |-> i], LAMBDA b : b # Slash /\ b # Dot)

Child(d, b) == IF d = RootDir THEN <<Slash, b>> ELSE d \o <<Slash, b>>

\* readDirNames: the entries of directory d, sorted by name.
readDirNames(fs, d) ==
    LET names == SelectSeq(NameBytes, LAMBDA b : Child(d, b) \in DOMAIN fs)
    IN [i \in 1..Len(names) |-> Child(d, names[i])]

\* The directories at and beneath root, as walkDir visits them.
DirsUnder(fs, root) ==
    {p \in DOMAIN fs : fs[p].isDir /\ (p = root \/ Beneath(p, root))}

newMkdirRequest(name) == Request(requestMkdir, name, 0)
newRemoveRequest(name) == Request(requestRemove, name, 0)

\* newCreateRequest: [req, err]; ioutil.ReadFile fails unless path is a file.
newCreateRequest(fs, path, name) ==
    IF IsFileAt(fs, path)
    THEN [req |-> <<Request(requestCreate, name, fs[path].data)>>, err |-> ""]
    ELSE [req |-> <<>>, err |-> "read failed"]

\* handleEvent: [req, err, add]: zero or one Request, the error's text, and
\* the directories recursiveAddWatchers subscribes to.
handleEvent(fs, event) ==
    LET relPath == Rel(cPath, event.Name)
        none == {}
    IN CASE event.Op = "Create" ->
              IF IsDirAt(fs, event.Name)
              THEN [req |-> <<newMkdirRequest(relPath)>>, err |-> "",
                    add |-> DirsUnder(fs, event.Name)]
              ELSE [req |-> newCreateRequest(fs, event.Name, relPath).req,
                    err |-> newCreateRequest(fs, event.Name, relPath).err,
                    add |-> none]
         [] event.Op = "Remove" ->
              [req |-> <<newRemoveRequest(relPath)>>, err |-> "", add |-> none]
         [] event.Op = "Rename" ->
              [req |-> <<newRemoveRequest(relPath)>>, err |-> "", add |-> none]
         [] event.Op = "Write" ->
              [req |-> newCreateRequest(fs, event.Name, relPath).req,
               err |-> newCreateRequest(fs, event.Name, relPath).err,
               add |-> none]
         [] event.Op = "Chmod" -> [req |-> <<>>, err |-> "", add |-> none]
         [] OTHER -> [req |-> <<>>, err |-> "Erroneous event value", add |-> none]

(***************************************************************************)
(* State.                                                                  *)
(***************************************************************************)
VARIABLES
    cfs,        \* the client machine's file system
    watched,    \* directories the fsnotify watcher is subscribed to
    events,     \* c.watcher.Events: events not yet received by watcherLoop
    edits,      \* edits of the client's tree so far: during Sync, and later
    closed,     \* Close was called: the watcher's channels are closed
    args,       \* main's flags, and whether ./certs/server.cert is readable
    exit,       \* the process: whether it has exited, and with what status
    pc,         \* SyncAndMonitor's position: start, sync, walk, send, loop, done
    ret,        \* the call site sendRequests returns to: walk, syncEnd, loop
    todo,       \* filepath.Walk: the entries still to visit, in order
    reqs,       \* the pending batch (Sync's, then watcherLoop's)
    result,     \* SyncAndMonitor's return value once pc = "done"
    synced,     \* Sync has returned nil
    conn,       \* sendRequests' connection: none, open
    idx,        \* sendRequests' loop index (1-based)
    wire,       \* the message in flight on the open connection
    orphans,    \* requests the server received on a connection since lost
    nFail,      \* connections failed or lost so far
    sfs,        \* the server machine's file system
    lastApply,  \* the last ApplyRequest call: its number, request, response
    applied,    \* emission numbers of the requests applied, in order
    running,    \* the ApplyRequest calls that have begun and not returned
    emitted,    \* every Request appended to a batch, in order
    flushes,    \* the batch of every connection opened, in order
    lastFlush,  \* the current or last sendRequests call (see FlushOf)
    sent        \* emission numbers of the requests sent, in order

envVars == <<cfs, watched, events, edits, closed>>
ctlVars == <<pc, ret, todo, reqs, result, synced>>
netVars == <<conn, idx, wire, orphans, nFail>>
srvVars == <<sfs, lastApply, applied, running>>
logVars == <<emitted, flushes, lastFlush, sent>>
cmdVars == <<args, exit>>
vars == <<cmdVars, envVars, ctlVars, netVars, srvVars, logVars>>

NoMsg == [kind |-> "none"]

\* The record of a sendRequests call as it starts on a batch of n requests.
\* errAt is the index of the request whose response was Error, 0 if none.
FlushOf(n) == [size |-> n, sent |-> 0, answered |-> 0, errAt |-> 0,
               lost |-> FALSE, err |-> "", done |-> FALSE]

\* The entries the client's tree may hold: a, b, b/a under c.path.
ClientPaths ==
    LET a == Child(cPath, 97)
        b == Child(cPath, 98)
    IN {a, b, Child(b, 97)}

\* Every tree over ClientPaths: each entry absent (-2), a directory (-1) or
\* a file with its content, every present entry inside a directory.
ClientTrees ==
    LET kinds == {-2, -1} \cup Data
        ok(f) == \A p \in ClientPaths :
                    f[p] # -2 => (Dir(p) = cPath \/ f[Dir(p)] = -1)
        fsOf(f) == [p \in {RootDir, cPath} \cup {q \in ClientPaths : f[q] # -2} |->
                       IF p \in ClientPaths /\ f[p] >= 0 THEN FileNode(f[p])
                       ELSE DirNode]
    IN {fsOf(f) : f \in {g \in [ClientPaths -> kinds] : ok(g)}}

\* The server's machine with tree t (a client's) mirrored under its root.
Mirror(t) ==
    LET to(p) == svPath \o SubSeq(p, Len(cPath) + 1, Len(p))
        inner == {p \in DOMAIN t : Beneath(p, cPath)}
    IN [q \in DOMAIN ServerInitFs \cup {to(p) : p \in inner} |->
           IF q \in DOMAIN ServerInitFs THEN ServerInitFs[q]
           ELSE t[cPath \o SubSeq(q, Len(svPath) + 1, Len(q))]]

InitAt(trees, serverFss, at, argSet) ==
    /\ args \in argSet
    /\ exit = [done |-> FALSE, status |-> 0]
    /\ cfs \in trees
    /\ watched = {}
    /\ events = <<>>
    /\ edits = [sync |-> 0, late |-> 0]
    /\ closed = FALSE
    /\ pc = at
    /\ ret = "none"
    /\ todo = <<>>
    /\ reqs = <<>>
    /\ result = ""
    /\ synced = FALSE
    /\ conn = "none"
    /\ idx = 0
    /\ wire = NoMsg
    /\ orphans = {}
    /\ nFail = 0
    /\ sfs \in serverFss
    /\ lastApply = [n |-> 0, req |-> Request(requestOther, <<>>, 0),
                    resp |-> ZeroResponse, ret |-> "nil"]
    /\ applied = <<>>
    /\ running = {}
    /\ emitted = <<>>
    /\ flushes = <<>>
    /\ lastFlush = [FlushOf(0) EXCEPT !.done = TRUE]
    /\ sent = <<>>

\* The flags that name the client's directory and the server.
DefaultArgs == [path |-> cPath, address |-> "localhost", port |-> 12345,
                cert |-> TRUE]

\* The state as SyncAndMonitor is called: main has parsed its flags and
\* NewClient has returned the client.
InitWith(trees, serverFss) == InitAt(trees, serverFss, "start", {DefaultArgs})

Init == InitWith(ClientTrees, {ServerInitFs})

(***************************************************************************)
(* Server actions.                                                         *)
(***************************************************************************)
\* One call of Server.ApplyRequest.
Serve(req, out) ==
    /\ sfs' = out.fs
    /\ lastApply' = [n |-> lastApply.n + 1, req |-> req, resp |-> out.resp,
                     ret |-> out.ret]

\* The server applies the request in flight and answers it.
ServerApply ==
    /\ wire.kind = "req"
    /\ \E out \in ApplyRequest(sfs, wire.req) :
          /\ Serve(wire.req, out)
          /\ wire' = [kind |-> "resp", resp |-> out.resp]
    /\ applied' = Append(applied, wire.seq)
    /\ UNCHANGED <<cmdVars, envVars, ctlVars, conn, idx, orphans, nFail, running, logVars>>

\* rpc.Accept serves every connection in a goroutine of its own: a request
\* read from a connection that was then lost is still applied, at any later
\* time; its response goes nowhere.
OrphanApply ==
    \E o \in orphans :
       /\ \E out \in ApplyRequest(sfs, o.req) : Serve(o.req, out)
       /\ applied' = Append(applied, o.seq)
       /\ orphans' = orphans \ {o}
       /\ UNCHANGED <<cmdVars, envVars, ctlVars, conn, idx, wire, nFail, running, logVars>>

\* A request arrives on a connection other than this client's: rpc.Accept
\* hands every connection it accepts to a goroutine of its own.
OtherConn ==
    /\ Cardinality(orphans) + Cardinality({r \in running : ~r.own})
          + Cardinality({i \in DOMAIN applied : applied[i] = 0}) < MaxOther
    /\ \E name \in ClientNames :
          orphans' = orphans \cup {[req |-> newRemoveRequest(<<name>>), seq |-> 0]}
    /\ UNCHANGED <<cmdVars, envVars, ctlVars, conn, idx, wire, nFail, srvVars, logVars>>

\* The goroutine of a request read from a connection enters ApplyRequest.
ApplyBegin ==
    /\ \/ /\ wire.kind = "req"
          /\ running' = running \cup {[req |-> wire.req, seq |-> wire.seq, own |-> TRUE]}
          /\ wire' = [kind |-> "run"]
          /\ UNCHANGED orphans
       \/ \E o \in orphans :
             /\ running' = running \cup {[req |-> o.req, seq |-> o.seq, own |-> FALSE]}
             /\ orphans' = orphans \ {o}
             /\ UNCHANGED wire
    /\ UNCHANGED <<cmdVars, envVars, ctlVars, conn, idx, nFail, sfs, lastApply, applied, logVars>>

\* A call of ApplyRequest acts on the tree and returns; its response goes
\* out on its connection.
ApplyEnd ==
    \E r \in running :
       /\ \E out \in ApplyRequest(sfs, r.req) :
             /\ Serve(r.req, out)
             /\ wire' = IF r.own THEN [kind |-> "resp", resp |-> out.resp] ELSE wire
       /\ applied' = Append(applied, r.seq)
       /\ running' = running \ {r}
       /\ UNCHANGED <<cmdVars, envVars, ctlVars, conn, idx, orphans, nFail, logVars>>

(***************************************************************************)
(* sendRequests.                                                           *)
(***************************************************************************)
\* A mutant of Return whose caller keeps the batch after a flush.
ReturnKeep(err, rec) ==
    /\ lastFlush' = [rec EXCEPT !.err = err, !.done = TRUE]
    /\ conn' = "none"
    /\ idx' = 0
    /\ IF err # ""
       THEN /\ pc' = "done"
            /\ result' = err
            /\ UNCHANGED <<reqs, synced>>
       ELSE /\ pc' = IF ret = "walk" THEN "walk" ELSE "loop"
            /\ reqs' = reqs
            /\ synced' = (synced \/ ret = "syncEnd")
            /\ result' = result
    /\ UNCHANGED <<ret, todo>>

\* sendRequests returns err ("" for nil); rec is the call's record so far.
Return(err, rec) ==
    /\ lastFlush' = [rec EXCEPT !.err = err, !.done = TRUE]
    /\ conn' = "none"
    /\ idx' = 0
    /\ IF err # ""
       THEN /\ pc' = "done"
            /\ result' = err
            /\ UNCHANGED <<reqs, synced>>
       ELSE /\ pc' = IF ret = "walk" THEN "walk" ELSE "loop"
            /\ reqs' = <<>>
            /\ synced' = (synced \/ ret = "syncEnd")
            /\ result' = result
    /\ UNCHANGED <<ret, todo>>

\* An empty batch returns nil at once; otherwise serverConnect.
SendStart ==
    /\ pc = "send" /\ conn = "none"
    /\ \/ /\ Len(reqs) = 0
          /\ Return("", FlushOf(0))
          /\ UNCHANGED <<flushes, nFail>>
       \/ /\ Len(reqs) > 0
          /\ conn' = "open"
          /\ idx' = 1
          /\ flushes' = Append(flushes, reqs)
          /\ lastFlush' = FlushOf(Len(reqs))
          /\ UNCHANGED <<ctlVars, nFail>>
       \/ /\ Len(reqs) > 0
          /\ nFail < MaxConnFail
          /\ nFail' = nFail + 1
          /\ Return("Connection to server failed",
                    [FlushOf(Len(reqs)) EXCEPT !.lost = TRUE])
          /\ UNCHANGED flushes
    /\ UNCHANGED <<cmdVars, envVars, wire, orphans, srvVars, emitted, sent>>

\* The emission number of reqs[i]: reqs is the tail of emitted.
SeqOf(i) == Len(emitted) - Len(reqs) + i

\* rconn.Call, first half: the request goes out.
CallSend ==
    /\ pc = "send" /\ conn = "open" /\ wire = NoMsg
    /\ wire' = [kind |-> "req", req |-> reqs[idx], seq |-> SeqOf(idx)]
    /\ sent' = Append(sent, SeqOf(idx))
    /\ lastFlush' = [lastFlush EXCEPT !.sent = @ + 1]
    /\ UNCHANGED <<cmdVars, envVars, ctlVars, conn, idx, orphans, nFail, srvVars,
                   emitted, flushes>>

\* A mutant of CallRecv that goes on to the next request after an Error.
CallRecvNoStop ==
    /\ pc = "send" /\ conn = "open" /\ wire.kind = "resp"
    /\ wire' = NoMsg
    /\ LET rec == [lastFlush EXCEPT
                      !.answered = @ + 1,
                      !.errAt = IF wire.resp.Type = responseErr /\ @ = 0
                                THEN idx ELSE @]
       IN IF idx = Len(reqs)
          THEN Return(IF wire.resp.Type = responseErr
                      THEN "Sending request to server failed" ELSE "", rec)
          ELSE /\ idx' = idx + 1
               /\ lastFlush' = rec
               /\ UNCHANGED <<ctlVars, conn>>
    /\ UNCHANGED <<cmdVars, envVars, orphans, nFail, srvVars, emitted, flushes, sent>>

\* rconn.Call, second half: the response is read and checked.
CallRecv ==
    /\ pc = "send" /\ conn = "open" /\ wire.kind = "resp"
    /\ wire' = NoMsg
    /\ LET rec == [lastFlush EXCEPT
                      !.answered = @ + 1,
                      !.errAt = IF wire.resp.Type = responseErr THEN idx ELSE @]
       IN IF wire.resp.Type = responseErr
          THEN Return("Sending request to server failed", rec)
          ELSE IF idx = Len(reqs)
          THEN Return("", rec)
          ELSE /\ idx' = idx + 1
               /\ lastFlush' = rec
               /\ UNCHANGED <<ctlVars, conn>>
    /\ UNCHANGED <<cmdVars, envVars, orphans, nFail, srvVars, emitted, flushes, sent>>

\* The connection is lost during the loop.  The pending Call and every
\* later one return an error, which line 131 drops: resp keeps its zero
\* value, and only its Type decides.  A request in flight may have reached
\* the server.
ConnLost ==
    /\ pc = "send" /\ conn = "open"
    /\ nFail < MaxConnFail
    /\ nFail' = nFail + 1
    /\ orphans' = IF wire.kind = "req"
                  THEN orphans \cup {[req |-> wire.req, seq |-> wire.seq]}
                  ELSE orphans
    /\ wire' = NoMsg
    /\ Return(IF ZeroResponse.Type = responseErr
              THEN "Sending request to server failed" ELSE "",
              [lastFlush EXCEPT !.lost = TRUE])
    /\ UNCHANGED <<cmdVars, envVars, srvVars, emitted, flushes, sent>>

(***************************************************************************)
(* SyncAndMonitor: startWatcher, Sync, watcherLoop.                        *)
(***************************************************************************)
\* startWatcher: a watcher subscribed to every directory of the tree.
StartWatcher ==
    /\ pc = "start"
    /\ watched' = DirsUnder(cfs, cPath)
    /\ pc' = "sync"
    /\ UNCHANGED <<cmdVars, cfs, events, edits, closed, ret, todo, reqs, result, synced,
                   netVars, srvVars, logVars>>

\* Sync calls filepath.Walk, which reads the root's entries and calls the
\* walk function on the root, which skips it.
SyncStart ==
    /\ pc = "sync"
    /\ todo' = readDirNames(cfs, cPath)
    /\ pc' = "walk"
    /\ UNCHANGED <<cmdVars, envVars, ret, reqs, result, synced, netVars, srvVars, logVars>>

\* A mutant of Buffer that sends the batch only once it exceeds the size.
BufferLate(req, next) ==
    /\ reqs' = reqs \o req
    /\ emitted' = emitted \o req
    /\ IF Len(reqs') = requestsBufferSize + 1
       THEN pc' = "send" /\ ret' = next
       ELSE pc' = next /\ ret' = ret

\* The batch after req joins it, and where control goes: to sendRequests
\* when the batch is full, else on.
Buffer(req, next) ==
    /\ reqs' = reqs \o req
    /\ emitted' = emitted \o req
    /\ IF Len(reqs') = requestsBufferSize
       THEN pc' = "send" /\ ret' = next
       ELSE pc' = next /\ ret' = ret

\* A mutant of WalkStep that skips an entry it cannot read and walks on.
WalkStepSkip ==
    /\ pc = "walk" /\ todo # <<>>
    /\ LET absPath == Head(todo)
           relPath == Rel(cPath, absPath)
           create == newCreateRequest(cfs, absPath, relPath)
       IN IF ~Exists(cfs, absPath) \/ (~IsDirAt(cfs, absPath) /\ create.err # "")
          THEN /\ todo' = Tail(todo)
               /\ UNCHANGED <<pc, result, ret, reqs, emitted>>
          ELSE /\ IF IsDirAt(cfs, absPath)
                  THEN /\ todo' = readDirNames(cfs, absPath) \o Tail(todo)
                       /\ Buffer(<<newMkdirRequest(relPath)>>, "walk")
                  ELSE /\ todo' = Tail(todo)
                       /\ Buffer(create.req, "walk")
               /\ result' = result
    /\ UNCHANGED <<cmdVars, envVars, synced, netVars, srvVars, flushes, lastFlush, sent>>

\* A mutant of WalkStep that emits no request for a directory.
WalkStepNoMkdir ==
    /\ pc = "walk" /\ todo # <<>>
    /\ LET absPath == Head(todo)
           relPath == Rel(cPath, absPath)
           create == newCreateRequest(cfs, absPath, relPath)
       IN IF ~Exists(cfs, absPath) \/ (~IsDirAt(cfs, absPath) /\ create.err # "")
          THEN /\ pc' = "done"
               /\ result' = "Initial files sending failure"
               /\ UNCHANGED <<ret, todo, reqs, emitted>>
          ELSE /\ IF IsDirAt(cfs, absPath)
                  THEN /\ todo' = readDirNames(cfs, absPath) \o Tail(todo)
                       /\ Buffer(<<>>, "walk")
                  ELSE /\ todo' = Tail(todo)
                       /\ Buffer(create.req, "walk")
               /\ result' = result
    /\ UNCHANGED <<cmdVars, envVars, synced, netVars, srvVars, flushes, lastFlush, sent>>

\* filepath.Walk visits the next entry and calls Sync's walk function.
WalkStep ==
    /\ pc = "walk" /\ todo # <<>>
    /\ LET absPath == Head(todo)
           relPath == Rel(cPath, absPath)
           create == newCreateRequest(cfs, absPath, relPath)
       IN IF ~Exists(cfs, absPath) \/ (~IsDirAt(cfs, absPath) /\ create.err # "")
          THEN \* lstat or ReadFile failed: Walk stops, Sync returns the error
               /\ pc' = "done"
               /\ result' = "Initial files sending failure"
               /\ UNCHANGED <<ret, todo, reqs, emitted>>
          ELSE /\ IF IsDirAt(cfs, absPath)
                  THEN /\ todo' = readDirNames(cfs, absPath) \o Tail(todo)
                       /\ Buffer(<<newMkdirRequest(relPath)>>, "walk")
                  ELSE /\ todo' = Tail(todo)
                       /\ Buffer(create.req, "walk")
               /\ result' = result
    /\ UNCHANGED <<cmdVars, envVars, synced, netVars, srvVars, flushes, lastFlush, sent>>

\* Walk is over: return c.sendRequests(reqs).
WalkEnd ==
    /\ pc = "walk" /\ todo = <<>>
    /\ pc' = "send"
    /\ ret' = "syncEnd"
    /\ UNCHANGED <<cmdVars, envVars, todo, reqs, result, synced, netVars, srvVars, logVars>>

\* watcherLoop receives an event and handles it.
HandleEvent ==
    /\ pc = "loop" /\ events # <<>>
    /\ events' = Tail(events)
    /\ LET h == handleEvent(cfs, Head(events))
       IN IF h.err # ""
          THEN /\ pc' = "done"
               /\ result' = "Handling file event failed"
               /\ UNCHANGED <<watched, ret, reqs, emitted>>
          ELSE /\ watched' = watched \cup h.add
               /\ Buffer(h.req, "loop")
               /\ result' = result
    /\ UNCHANGED <<cmdVars, cfs, edits, closed, todo, synced, netVars, srvVars, flushes,
                   lastFlush, sent>>

\* No event arrived for requestsWaitTime: the timer's case runs.  (A closed
\* channel is ready at once, so the timer's case no longer runs.)
Timeout ==
    /\ pc = "loop" /\ events = <<>> /\ ~closed
    /\ IF Len(reqs) > 0
       THEN pc' = "send" /\ ret' = "loop"
       ELSE UNCHANGED <<pc, ret>>
    /\ UNCHANGED <<cmdVars, envVars, todo, reqs, result, synced, netVars, srvVars, logVars>>

\* Client.Close, called from another goroutine: the watcher drops its
\* watches and the events it has not delivered and closes its channels.
Close ==
    /\ pc \notin {"start", "done"} /\ ~closed
    /\ closed' = TRUE
    /\ watched' = {}
    /\ events' = <<>>
    /\ UNCHANGED <<cmdVars, cfs, edits, ctlVars, netVars, srvVars, logVars>>

\* A mutant of LoopClosed that sends the pending batch before it returns.
LoopClosedFlush ==
    /\ pc = "loop" /\ closed
    /\ IF reqs # <<>>
       THEN pc' = "send" /\ ret' = "loop" /\ result' = result
       ELSE pc' = "done" /\ ret' = ret /\ result' = ""
    /\ UNCHANGED <<cmdVars, envVars, todo, reqs, synced, netVars, srvVars, logVars>>

\* watcherLoop finds a channel of the watcher closed and returns nil.
LoopClosed ==
    /\ pc = "loop" /\ closed
    /\ pc' = "done"
    /\ result' = ""
    /\ UNCHANGED <<cmdVars, envVars, ret, todo, reqs, synced, netVars, srvVars, logVars>>

\* watcherLoop receives an error from c.watcher.Errors and returns it.
WatcherError ==
    /\ pc = "loop" /\ ~closed
    /\ pc' = "done"
    /\ result' = "watcher error"
    /\ UNCHANGED <<cmdVars, envVars, ret, todo, reqs, synced, netVars, srvVars, logVars>>

(***************************************************************************)
(* The client command: main parses its flags, makes the client, runs       *)
(* SyncAndMonitor, and the process exits.                                  *)
(***************************************************************************)
\* The hosts net.ResolveTCPAddr resolves.
Resolvable == {"localhost"}

\* isDirectory: os.Stat succeeds and reports a directory.
isDirectory(fs, path) == IsDirAt(fs, path)

\* main's test of its flags (line 15).
InvalidArgs(a) ==
    a.path = <<>> \/ a.address = "" \/ a.port > 65535 \/ a.port <= 0

\* NewClient's error, "" for nil.
NewClient(fs, a) ==
    IF ~isDirectory(fs, a.path) THEN "Path not a directory"
    ELSE IF a.address \notin Resolvable THEN "ResolveTCPAddr failed"
    ELSE IF ~a.cert THEN "Creating TLS config failed"
    ELSE ""

Exited(status) == [done |-> TRUE, status |-> status]

\* main, lines 11..18: invalid flags print the defaults and os.Exit(0).
MainParse ==
    /\ pc = "main"
    /\ IF InvalidArgs(args)
       THEN pc' = "exited" /\ exit' = Exited(0)
       ELSE pc' = "new" /\ exit' = exit
    /\ UNCHANGED <<args, envVars, ret, todo, reqs, result, synced, netVars,
                   srvVars, logVars>>

\* main, lines 19..23: NewClient; log.Fatal exits with status 1.
MainNewClient ==
    /\ pc = "new"
    /\ IF NewClient(cfs, args) # ""
       THEN pc' = "exited" /\ exit' = Exited(1)
       ELSE pc' = "start" /\ exit' = exit
    /\ UNCHANGED <<args, envVars, ret, todo, reqs, result, synced, netVars,
                   srvVars, logVars>>

\* main, lines 24..28: SyncAndMonitor has returned; its error, if any, is
\* logged; main returns, the deferred cl.Close() runs, and the process
\* exits with status 0.
MainReturn ==
    /\ pc = "done"
    /\ pc' = "exited"
    /\ exit' = Exited(0)
    /\ closed' = TRUE
    /\ watched' = {}
    /\ events' = <<>>
    /\ UNCHANGED <<args, cfs, edits, ret, todo, reqs, result, synced, netVars,
                   srvVars, logVars>>

(***************************************************************************)
(* The client's tree changes under the running client, and inotify reports *)
(* each change in a watched directory.                                     *)
(***************************************************************************)
Notify(q, op, name) ==
    IF Dir(name) \in watched THEN Append(q, [Op |-> op, Name |-> name]) ELSE q

EditCount == edits.sync + edits.late

\* What every edit leaves alone, and its count.
Edited ==
    /\ edits' = IF synced THEN [edits EXCEPT !.late = @ + 1]
                ELSE [edits EXCEPT !.sync = @ + 1]
    /\ UNCHANGED <<cmdVars, closed, ctlVars, netVars, srvVars, logVars>>

EnvCreate ==
    /\ \E p \in ClientPaths, d \in Data :
          /\ ~Exists(cfs, p) /\ IsDirAt(cfs, Dir(p))
          /\ cfs' = Put(cfs, p, FileNode(d))
          /\ events' = Notify(events, "Create", p)
    /\ UNCHANGED watched
    /\ Edited

EnvMkdir ==
    /\ \E p \in ClientPaths :
          /\ ~Exists(cfs, p) /\ IsDirAt(cfs, Dir(p))
          /\ cfs' = Put(cfs, p, DirNode)
          /\ events' = Notify(events, "Create", p)
    /\ UNCHANGED watched
    /\ Edited

\* One of the files `paths` gets new content.
WriteOneOf(paths) ==
    /\ \E p \in paths, d \in Data :
          /\ IsFileAt(cfs, p) /\ cfs[p].data # d
          /\ cfs' = Put(cfs, p, FileNode(d))
          /\ events' = Notify(events, "Write", p)
    /\ UNCHANGED watched
    /\ Edited

EnvWrite == WriteOneOf(ClientPaths)

\* unlink or rmdir of one of `paths`: a directory goes only when empty, and
\* its watch with it.
RemoveOneOf(paths) ==
    /\ \E p \in paths :
          /\ Exists(cfs, p)
          /\ \A q \in DOMAIN cfs : ~Beneath(q, p)
          /\ cfs' = Restrict(cfs, DOMAIN cfs \ {p})
          /\ events' = Notify(events, "Remove", p)
          /\ watched' = watched \ {p}
    /\ Edited

EnvRemove == RemoveOneOf(ClientPaths)

\* rename of a regular file inside the tree.
EnvRename ==
    /\ \E p \in ClientPaths, q \in ClientPaths :
          /\ IsFileAt(cfs, p) /\ ~Exists(cfs, q) /\ IsDirAt(cfs, Dir(q))
          /\ cfs' = Put(Restrict(cfs, DOMAIN cfs \ {p}), q, cfs[p])
          /\ events' = Notify(Notify(events, "Rename", p), "Create", q)
    /\ UNCHANGED watched
    /\ Edited

Edit == EnvCreate \/ EnvMkdir \/ EnvWrite \/ EnvRemove \/ EnvRename

\* chmod changes nothing the model holds, so it is not counted as an edit.
EnvChmod ==
    /\ pc \notin {"start", "done"} /\ Len(events) < MaxQueue
    /\ \E p \in ClientPaths :
          /\ Exists(cfs, p) /\ Dir(p) \in watched
          /\ events' = Notify(events, "Chmod", p)
    /\ UNCHANGED <<cmdVars, cfs, watched, edits, closed, ctlVars, netVars, srvVars, logVars>>

\* An event whose Op holds none of Create, Write, Remove, Rename, Chmod.
EnvUnknown ==
    /\ pc \notin {"start", "done"} /\ Len(events) < MaxQueue
    /\ \E p \in ClientPaths :
          /\ Exists(cfs, p) /\ Dir(p) \in watched
          /\ events' = Notify(events, "Unknown", p)
    /\ UNCHANGED <<cmdVars, cfs, watched, edits, closed, ctlVars, netVars, srvVars, logVars>>

\* Edits at any time once the watcher runs.
EnvAnyTime == pc \notin {"start", "done"} /\ EditCount < MaxEdits /\ Edit

\* At most max edits, all after Sync has returned nil.
EnvAfterSync(max) == synced /\ pc # "done" /\ EditCount < max /\ Edit

(***************************************************************************)
(* Specifications.                                                         *)
(***************************************************************************)
Client == StartWatcher \/ SyncStart \/ WalkStep \/ WalkEnd \/ HandleEvent
            \/ Timeout \/ SendStart \/ CallSend \/ CallRecv
Network == ConnLost
Server == ServerApply \/ OrphanApply
Env == EnvAnyTime \/ EnvChmod

Next == Client \/ Network \/ Server \/ Env

\* One session of the client against the server, the client's tree changing
\* under it and the network failing.
Spec == Init /\ [][Next]_vars

(***************************************************************************)
(* SpecSteady: the network does not fail and the tree changes only after   *)
(* Sync has returned.                                                      *)
(***************************************************************************)
Session == StartWatcher \/ SyncStart \/ WalkStep \/ WalkEnd \/ HandleEvent
             \/ Timeout \/ SendStart \/ CallSend \/ CallRecv \/ ServerApply

NextSteady == Session \/ EnvAfterSync(MaxSteadyEdits)

SpecSteady == Init /\ [][NextSteady]_vars

(***************************************************************************)
(* SpecLive: as SpecSteady, with attribute changes, and with the client's   *)
(* goroutine running whenever it can: the timer's case runs when no event  *)
(* arrives for requestsWaitTime, that is when it stays enabled.            *)
(***************************************************************************)
NextLive == Session \/ EnvAfterSync(MaxLiveEdits) \/ EnvChmod

SpecLive ==
    /\ Init /\ [][NextLive]_vars
    /\ WF_vars(HandleEvent) /\ WF_vars(Timeout)
    /\ WF_vars(SendStart) /\ WF_vars(CallSend) /\ WF_vars(CallRecv)

(***************************************************************************)
(* SpecMonitor: as SpecSteady, with events of every kind, errors of the    *)
(* watcher, and Close called at any time.                                  *)
(***************************************************************************)
NextMonitor == Session \/ EnvAfterSync(MaxMonitorEdits) \/ EnvChmod \/ EnvUnknown
                 \/ Close \/ LoopClosed \/ WatcherError

SpecMonitor == Init /\ [][NextMonitor]_vars

(***************************************************************************)
(* SpecServe: the server's calls of ApplyRequest take time, and requests   *)
(* arrive on other connections while this client's session runs; the       *)
(* client's tree does not change and the network does not fail.            *)
(***************************************************************************)
NextServe == StartWatcher \/ SyncStart \/ WalkStep \/ WalkEnd \/ Timeout
               \/ SendStart \/ CallSend \/ CallRecv
               \/ OtherConn \/ ApplyBegin \/ ApplyEnd

SpecServe == Init /\ [][NextServe]_vars

(***************************************************************************)
(* SpecResync: the server still holds the tree of an earlier session when  *)
(* the client starts; the client's tree does not change.                   *)
(***************************************************************************)
InitResync == InitWith(ClientTrees, {Mirror(t) : t \in ClientTrees})

NextResync == StartWatcher \/ SyncStart \/ WalkStep \/ WalkEnd \/ Timeout
                \/ SendStart \/ CallSend \/ CallRecv \/ ConnLost
                \/ ServerApply \/ OrphanApply

SpecResync == InitResync /\ [][NextResync]_vars

(***************************************************************************)
(* SpecBatch: the client's root holds n files and nothing else and the     *)
(* network does not fail.  Once the client monitors, its first file is     *)
(* written again and again, each write before the timer of the previous    *)
(* one's wait runs out, so that the timer's case never runs.               *)
(***************************************************************************)
FlatTree(n) ==
    [p \in {RootDir, cPath} \cup {Child(cPath, NameBytes[i]) : i \in 1..n} |->
        IF p \in {RootDir, cPath} THEN DirNode ELSE FileNode(1)]

InitBatch == InitWith({FlatTree(n) : n \in 0..MaxWalkFiles}, {ServerInitFs})

EnvStream ==
    /\ pc = "loop" /\ events = <<>> /\ EditCount < MaxStream
    /\ WriteOneOf({Child(cPath, NameBytes[1])})

NextBatch == StartWatcher \/ SyncStart \/ WalkStep \/ WalkEnd \/ HandleEvent
               \/ SendStart \/ CallSend \/ CallRecv \/ ServerApply \/ EnvStream

SpecBatch == InitBatch /\ [][NextBatch]_vars

(***************************************************************************)
(* SpecWalkFail: the client's root holds n files and nothing else, and one *)
(* of them is removed while Sync runs; the network does not fail.          *)
(***************************************************************************)
InitWalkFail == InitWith({FlatTree(n) : n \in 0..MaxFailFiles}, {ServerInitFs})

EnvUnlink ==
    /\ pc \in {"walk", "send"} /\ EditCount = 0
    /\ RemoveOneOf({Child(cPath, NameBytes[i]) : i \in {1, MaxFailFiles}})

NextWalkFail == StartWatcher \/ SyncStart \/ WalkStep \/ WalkEnd \/ HandleEvent
                  \/ Timeout \/ SendStart \/ CallSend \/ CallRecv \/ ServerApply
                  \/ EnvUnlink

SpecWalkFail == InitWalkFail /\ [][NextWalkFail]_vars

(***************************************************************************)
(* SpecMain: the client command from its start: any flags, a tree of       *)
(* regular files, one of which may be unlinked during the walk, a server   *)
(* that may not be reached, and a watcher that may report an error.        *)
(***************************************************************************)
MainPaths == {<<>>, cPath, Child(cPath, NameBytes[1]), <<Slash, 122>>}
MainPorts == {-1, 0, 1, 12345, 65535, 65536}

MainArgs == [path : MainPaths, address : {"", "localhost", "nohost"},
             port : MainPorts, cert : BOOLEAN]

InitMain ==
    InitAt({FlatTree(n) : n \in 0..MaxMainFiles}, {ServerInitFs}, "main", MainArgs)

NextMain == MainParse \/ MainNewClient \/ StartWatcher \/ SyncStart \/ WalkStep
              \/ WalkEnd \/ HandleEvent \/ Timeout \/ SendStart \/ CallSend
              \/ CallRecv \/ ServerApply \/ EnvUnlink \/ WatcherError
              \/ MainReturn

SpecMain == InitMain /\ [][NextMain]_vars

(***************************************************************************)
(* SpecApply: ApplyRequest as a function: the server's tree is any that    *)
(* earlier requests can have built, and one request, any at all, arrives.  *)
(***************************************************************************)
\* The paths of the specification's examples: "/abs", "a/../b", "../x",
\* "a/b/c", "file.txt".
PathAbs == <<Slash, 97, 98, 115>>
PathInnerDotDot == <<97, Slash, Dot, Dot, Slash, 98>>
PathDotDotX == <<Dot, Dot, Slash, 120>>
PathABC == <<97, Slash, 98, Slash, 99>>
PathFileTxt == <<102, 105, 108, 101, Dot, 116, 120, 116>>
ExamplePaths == {PathAbs, PathInnerDotDot, PathDotDotX, PathABC, PathFileTxt}

\* Every string of at most MaxPathLen bytes out of '/', '.', 'a'.
PathStrings == UNION {[1..n -> {Slash, Dot, 97}] : n \in 0..MaxPathLen}

AnyRequests ==
    {Request(t, p, 0) : t \in {requestMkdir, requestRemove, requestOther},
                        p \in PathStrings \cup ExamplePaths}
    \cup {Request(requestCreate, p, d) : p \in PathStrings \cup ExamplePaths,
                                         d \in Data}

\* The server's tree is any that earlier requests can have built.
InitApply == InitWith({FlatTree(0)}, {Mirror(t) : t \in ClientTrees})

ApplyAny ==
    /\ lastApply.n = 0
    /\ \E req \in AnyRequests : \E out \in ApplyRequest(sfs, req) : Serve(req, out)
    /\ UNCHANGED <<cmdVars, envVars, ctlVars, netVars, applied, running, logVars>>

SpecApply == InitApply /\ [][ApplyAny]_vars

(***************************************************************************)
(* Properties.                                                             *)
(***************************************************************************)
\* The tree beneath base, by relative path.
TreeAt(fs, base) ==
    {<<Rel(base, p), fs[p]>> : p \in {q \in DOMAIN fs : Beneath(q, base)}}
ClientTree == TreeAt(cfs, cPath)
ServerTree == TreeAt(sfs, svPath)
InSync == Exists(sfs, svPath) /\ ServerTree = ClientTree

\* The client waits in watcherLoop with nothing left to handle or send.
Quiescent == pc = "loop" /\ events = <<>> /\ reqs = <<>> /\ orphans = {}

Range(f) == {f[i] : i \in DOMAIN f}
Increasing(f) == \A i, j \in DOMAIN f : i < j => f[i] < f[j]
SendErr == "Sending request to server failed"

\* The last request the server applied was refused by validateRequest.
SanitizerRejected ==
    /\ lastApply.resp.Type = responseErr
    /\ lastApply.resp.Message \in {"Missing request path", "Erroneous path value"}

RECURSIVE Concat(_)
Concat(ss) == IF ss = <<>> THEN <<>> ELSE Head(ss) \o Concat(Tail(ss))

CeilDiv(n, d) == (n + d - 1) \div d

\* C1 (Spec): when Sync has returned nil and the client's tree was never
\* edited, the server's root holds exactly the client's tree.
C1_InitialSync == (synced /\ EditCount = 0) => InSync

\* C2 (SpecApply): no step creates, changes or removes an entry that is not
\* strictly inside the server's root; the root itself stays.
C2_RootContainment ==
    [][\A p \in DOMAIN sfs \cup DOMAIN sfs' :
          ~Beneath(p, svPath) =>
              p \in DOMAIN sfs /\ p \in DOMAIN sfs' /\ sfs'[p] = sfs[p]]_vars

\* C3 (Spec): the server applies requests in the order of their emission.
C3_OrderPreserved == Increasing(applied)

\* C4 (Spec): with a network that does not fail, edits made while Sync runs
\* do not end the session, and once the client has nothing left to handle
\* the server's tree is the client's.
C4_WalkEditsHandled ==
    (edits.sync > 0 /\ edits.late = 0 /\ nFail = 0) =>
        (pc # "done" /\ (Quiescent => InSync))

\* C5 (SpecSteady): after a successful initial sync and edits made after it,
\* once the client has nothing left to handle the server's tree is the
\* client's.
C5_SteadyConvergence == (synced /\ Quiescent) => InSync

\* C6 (SpecResync): the requests of a batch go out in order and one at a
\* time, each sent only after the response to the one before it was read;
\* no request goes out twice; once a response is Error the call returns
\* the error, the session is over, nothing after the failing request was
\* sent, and the requests up to it were applied.
C6_FailFast ==
    /\ lastFlush.sent - lastFlush.answered \in {0, 1}
    /\ lastFlush.sent <= lastFlush.size
    /\ wire.kind = "req" =>
          wire.req = reqs[idx] /\ lastFlush.sent = idx /\ lastFlush.answered = idx - 1
    /\ Increasing(sent)
    /\ lastFlush.errAt # 0 =>
          /\ lastFlush.done /\ lastFlush.err = SendErr
          /\ pc = "done" /\ result = SendErr
          /\ lastFlush.sent = lastFlush.errAt
          /\ \A i \in 1..Len(reqs) :
                (i <= lastFlush.errAt <=> SeqOf(i) \in Range(sent))
                /\ (i <= lastFlush.errAt => SeqOf(i) \in Range(applied))

\* An Error answered the second request of a batch of three.
C6_Witness == lastFlush.errAt = 2 /\ lastFlush.size = 3

\* C7 (Spec): a sendRequests call whose connection failed or was lost
\* returns an error that ends the session, and a call that returns nil has
\* read a response to every request of its batch.
C7_TransportFatal ==
    lastFlush.done =>
        /\ lastFlush.lost =>
              lastFlush.err # "" /\ pc = "done" /\ result = lastFlush.err
        /\ lastFlush.err = "" => lastFlush.answered = lastFlush.size

\* C8 (SpecApply): the sanitizer rejects the empty path, "/abs", "a/../b",
\* "../x", every path that begins with a separator and every path that
\* differs from its canonical form, and accepts "a/b/c" and "file.txt".
C8_SanitizerSet ==
    lastApply.n > 0 =>
        LET p == lastApply.req.Path IN
        /\ (p = <<>> \/ p \in {PathAbs, PathInnerDotDot, PathDotDotX}
              \/ IsRooted(p) \/ p # Clean(p)) => SanitizerRejected
        /\ p \in {PathABC, PathFileTxt} => ~SanitizerRejected

\* C9 (SpecBatch): the pending batch never holds more than
\* requestsBufferSize requests and holds fewer whenever another may be
\* appended; every flush carries 1..requestsBufferSize requests; when Sync
\* has returned nil after emitting n requests, one per file and in the
\* order of the names, it has made ceil(n / requestsBufferSize) flushes,
\* whose concatenation is those n requests.
C9_BatchBound ==
    /\ Len(reqs) <= requestsBufferSize
    /\ pc \in {"walk", "loop"} => Len(reqs) < requestsBufferSize
    /\ \A i \in DOMAIN flushes : Len(flushes[i]) \in 1..requestsBufferSize
    /\ (synced /\ ret = "syncEnd") =>
          LET n == Len(emitted) - Len(reqs) IN
          /\ n = Cardinality(DOMAIN cfs) - 2
          /\ \A i \in 1..n :
                emitted[i] = Request(requestCreate, <<NameBytes[i]>>, 1)
          /\ Len(flushes) = CeilDiv(n, requestsBufferSize)
          /\ Concat(flushes) = SubSeq(emitted, 1, n)

\* Sync of 250 or more files has returned after flushes of 100, 100 and 50
\* or more requests.
C9_Witness ==
    /\ synced /\ ret = "syncEnd"
    /\ Len(flushes) = 3
    /\ Len(flushes[1]) = requestsBufferSize
    /\ Len(flushes[2]) = requestsBufferSize
    /\ Len(flushes[3]) >= 50

\* C10 (SpecLive): a request in watcherLoop's pending batch is eventually
\* sent, or the session ends.
C10_NoRequestHeldForever ==
    (pc = "loop" /\ reqs # <<>>) ~> (pc # "loop")

\* C11 (SpecMonitor): watcherLoop returns only when a channel of the watcher
\* is closed, and then nil; when an event of an unrecognized kind is handled,
\* and then an error; or when a flush fails, and then the flush's error.
KnownOps == {"Create", "Write", "Remove", "Rename", "Chmod"}

C11_TerminationCauses ==
    [][((pc = "loop" /\ pc' = "done") =>
           ((closed /\ result' = "")
            \/ (events # <<>> /\ Head(events).Op \notin KnownOps /\ result' # "")))
       /\ ((pc = "send" /\ ret = "loop" /\ pc' = "done") =>
              (lastFlush'.err # "" /\ result' = lastFlush'.err))]_vars

\* C12 (SpecServe): no two calls of ApplyRequest are in progress at once.
C12_ServerSerialized == Cardinality(running) <= 1

\* A request path the sanitizer accepts and that names an entry inside the
\* server's root.
ValidPath(p) ==
    validateRequest(Request(requestOther, p, 0)) = "" /\ Beneath(Join(svPath, p), svPath)

\* fs without p and the entries beneath p.
Without(fs, p) == Restrict(fs, {q \in DOMAIN fs : q # p /\ ~Beneath(q, p)})

\* C13 (SpecApply): Remove of a valid path answers Ok whether or not the
\* entry exists, leaves neither the entry nor anything beneath it and changes
\* nothing else; a second Remove of the path answers Ok and changes nothing;
\* and MakeDirectory a, PutFile a/a, Remove a leave neither a nor a/a.
C13_RemoveSemantics ==
    [][LET req == lastApply'.req
           abs == Join(svPath, req.Path)
           d == <<97>>
           f == <<97, Slash, 97>>
       IN /\ (req.Type = requestRemove /\ ValidPath(req.Path)) =>
                /\ lastApply'.resp = Response(responseOk, "")
                /\ sfs' = Without(sfs, abs)
                /\ \A again \in ApplyRequest(sfs', req) :
                      again.fs = sfs' /\ again.resp = Response(responseOk, "")
          /\ \A o1 \in ApplyRequest(sfs, newMkdirRequest(d)) :
                \A o2 \in ApplyRequest(o1.fs, Request(requestCreate, f, 1)) :
                   \A o3 \in ApplyRequest(o2.fs, newRemoveRequest(d)) :
                      /\ ~Exists(o3.fs, Join(svPath, d))
                      /\ ~Exists(o3.fs, Join(svPath, f))]_vars

\* The last step applied a request of type t with a valid path.
Applied(t) == lastApply'.req.Type = t /\ ValidPath(lastApply'.req.Path)

\* The last step answered Error and left the tree as it was.
Refused == lastApply'.resp.Type = responseErr /\ sfs' = sfs

\* The last step answered Ok and put node at the request's path, changing
\* nothing else.
Stored(node) ==
    /\ lastApply'.resp = Response(responseOk, "")
    /\ sfs' = Put(sfs, Join(svPath, lastApply'.req.Path), node)

\* C14 (SpecApply), as the code has it: MakeDirectory answers Error when
\* anything exists at the path or the parent directory does not exist, and
\* otherwise creates the directory; PutFile answers Error when the parent
\* directory does not exist or a directory exists at the path, and otherwise
\* leaves a file holding exactly the payload; neither changes any other
\* entry, so neither creates a parent.
C14_CreateExclusive ==
    [][LET abs == Join(svPath, lastApply'.req.Path)
       IN /\ Applied(requestMkdir) =>
                IF Exists(sfs, abs) \/ ~IsDirAt(sfs, Dir(abs))
                THEN Refused ELSE Stored(DirNode)
          /\ Applied(requestCreate) =>
                IF ~IsDirAt(sfs, Dir(abs)) \/ IsDirAt(sfs, abs)
                THEN Refused ELSE Stored(FileNode(lastApply'.req.Data))]_vars

\* C14 as stated: PutFile answers Error only when the parent directory does
\* not exist, and otherwise leaves a file holding exactly the payload.
C14_AsStated ==
    [][LET abs == Join(svPath, lastApply'.req.Path)
       IN /\ Applied(requestMkdir) =>
                IF Exists(sfs, abs) \/ ~IsDirAt(sfs, Dir(abs))
                THEN Refused ELSE Stored(DirNode)
          /\ Applied(requestCreate) =>
                IF ~IsDirAt(sfs, Dir(abs))
                THEN Refused ELSE Stored(FileNode(lastApply'.req.Data))]_vars

\* MakeDirectory of a path whose parent directory is missing was refused.
C14_Witness ==
    /\ lastApply.n = 1
    /\ lastApply.req = newMkdirRequest(<<97, Slash, 97>>)
    /\ lastApply.resp.Type = responseErr
    /\ ~Exists(sfs, Join(svPath, <<97>>))

\* C15 (SpecApply): a request whose path is empty or differs from its clean
\* form, or whose kind is none of MakeDirectory, PutFile, Remove, is
\* answered Error with a non-empty message and leaves the tree as it was;
\* an Ok response has an empty message; ApplyRequest itself returns nil.
C15_NoMutationOnReject ==
    [][LET req == lastApply'.req
           resp == lastApply'.resp
       IN /\ (req.Path = <<>> \/ req.Path # Clean(req.Path)
                 \/ req.Type \notin {requestMkdir, requestCreate, requestRemove}) =>
                (resp.Type = responseErr /\ resp.Message # "" /\ sfs' = sfs)
          /\ resp.Type = responseOk => resp.Message = ""
          /\ lastApply'.ret = "nil"]_vars

\* Remove of "a/../b" was refused by the sanitizer.
C15_Witness ==
    /\ lastApply.n = 1
    /\ lastApply.req = newRemoveRequest(PathInnerDotDot)
    /\ lastApply.resp = Response(responseErr, "Erroneous path value")

\* watcherLoop takes the first waiting event and handles it.
HandlesEvent ==
    pc = "loop" /\ events # <<>> /\ events' = Tail(events) /\ closed' = closed

\* The requests the step appends to the batch.
Emits == SubSeq(emitted', Len(emitted) + 1, Len(emitted'))

\* C16 (SpecMonitor): handling an event appends, with the event's path
\* relative to the client's root: for a created directory MakeDirectory,
\* the directory and its descendant directories being watched from then on;
\* for a created or written file PutFile with the file's content; for a
\* removal or a rename Remove; for an attribute change nothing, with no
\* error; for any other kind nothing, with an error.
C16_TranslationTable ==
    [][HandlesEvent =>
         LET e == Head(events)
             rel == Rel(cPath, e.Name)
         IN CASE e.Op = "Create" /\ IsDirAt(cfs, e.Name) ->
                   /\ Emits = <<Request(requestMkdir, rel, 0)>>
                   /\ DirsUnder(cfs, e.Name) \subseteq watched'
                   /\ pc' # "done"
              [] (e.Op = "Create" /\ ~IsDirAt(cfs, e.Name)) \/ e.Op = "Write" ->
                   /\ IsFileAt(cfs, e.Name)
                   /\ Emits = <<Request(requestCreate, rel, cfs[e.Name].data)>>
                   /\ pc' # "done"
              [] e.Op \in {"Remove", "Rename"} ->
                   Emits = <<Request(requestRemove, rel, 0)>> /\ pc' # "done"
              [] e.Op = "Chmod" -> Emits = <<>> /\ pc' = "loop"
              [] OTHER -> Emits = <<>> /\ pc' = "done" /\ result' # ""]_vars

\* C17 (SpecMonitor): no request of the pending batch has been sent while
\* watcherLoop waits; once the watcher's channels are closed, watcherLoop's
\* next step is to return nil, with no connection opened, nothing sent and
\* the server's state as it was; and after the return nothing is sent.
C17_ShutdownDropsBatch ==
    [][/\ pc = "loop" => \A i \in 1..Len(reqs) : SeqOf(i) \notin Range(sent)
       /\ (pc = "loop" /\ closed /\ pc' # pc) =>
             /\ pc' = "done" /\ result' = ""
             /\ UNCHANGED <<reqs, conn, wire, flushes, sent, srvVars>>
       /\ pc = "done" => UNCHANGED <<pc, reqs, conn, wire, flushes, sent>>]_vars

\* watcherLoop has returned nil on a closed channel with a request pending.
C17_Witness ==
    pc = "done" /\ closed /\ result = "" /\ reqs # <<>> /\ conn = "none"

WalkErr == "Initial files sending failure"

\* C18 (SpecWalkFail): when the walk comes to an entry it cannot read, Sync
\* returns an error at once and emits and sends nothing; when Sync has
\* failed so, SyncAndMonitor has returned the error, Sync has not succeeded,
\* no connection is open, no request of the pending batch was sent, and
\* every request flushed before was applied and its file is on the server;
\* and after the return nothing is emitted or sent.
C18_WalkFailureAborts ==
    [][/\ (pc = "walk" /\ todo # <<>> /\ ~Exists(cfs, Head(todo))
             /\ <<pc, todo>>' # <<pc, todo>>) =>
             /\ pc' = "done" /\ result' = WalkErr
             /\ UNCHANGED <<todo, reqs, emitted, flushes, sent, conn, srvVars>>
       /\ (pc' = "done" /\ result' = WalkErr) =>
             /\ ~synced' /\ conn' = "none" /\ wire' = NoMsg
             /\ \A i \in 1..Len(emitted') :
                   IF i > Len(emitted') - Len(reqs')
                   THEN i \notin Range(sent')
                   ELSE /\ i \in Range(sent') /\ i \in Range(applied')
                        /\ sfs'[Join(svPath, emitted'[i].Path)]
                              = FileNode(emitted'[i].Data)
       /\ pc = "done" => UNCHANGED <<pc, result, emitted, flushes, sent, conn>>]_vars

\* Sync failed after one full batch was flushed, with requests pending.
C18_Witness ==
    /\ pc = "done" /\ result = WalkErr
    /\ Len(flushes) = 1 /\ Len(applied) = requestsBufferSize
    /\ reqs # <<>>

\* C19 (SpecMain): when the client command has exited, its status is not 0
\* if its flags were invalid, and not 0 if SyncAndMonitor returned an error.
C19_ExitStatus ==
    exit.done =>
        /\ InvalidArgs(args) => exit.status # 0
        /\ result # "" => exit.status # 0

\* The directory of the client's tree that holds the entry a request names,
\* as an absolute path and as the request path of its MakeDirectory.
ParentAbs(path) == Dir(Join(cPath, path))
ParentRel(path) == Rel(cPath, ParentAbs(path))

\* C20 (SpecSteady): while Sync runs, no emitted request names the root, and
\* every emitted request whose entry lies in a directory other than the root
\* comes after the MakeDirectory request of that directory; and when the
\* server applies a MakeDirectory or PutFile during the initial sync of a
\* tree that has not changed, the parent of its target is a directory on
\* the server and the response is Ok.
C20_ParentBeforeChildren ==
    [][/\ ~synced' =>
             \A i \in 1..Len(emitted') :
                /\ Join(cPath, emitted'[i].Path) # cPath
                /\ ParentAbs(emitted'[i].Path) # cPath =>
                      \E j \in 1..(i - 1) :
                         emitted'[j] = newMkdirRequest(ParentRel(emitted'[i].Path))
       /\ (/\ lastApply'.n # lastApply.n
           /\ ~synced /\ edits.sync = 0
           /\ lastApply'.req.Type \in {requestMkdir, requestCreate}) =>
             /\ ~NoParent(sfs, Join(svPath, lastApply'.req.Path))
             /\ lastApply'.resp.Type = responseOk]_vars

\* During the initial sync of a static tree the server has applied the
\* request of an entry two levels down.
C20_Witness ==
    /\ ~synced /\ edits.sync = 0 /\ pc = "send"
    /\ applied # <<>>
    /\ ParentAbs(lastApply.req.Path) # cPath
    /\ lastApply.resp.Type = responseOk
    /\ IsFileAt(sfs, Join(svPath, lastApply.req.Path))

\* C21 (SpecSteady): no emitted request is sent twice: the emission numbers
\* sent increase, and each lies in a batch flushed; the batches flushed are,
\* one after the other, a prefix of the requests emitted, so that no
\* emission is in two of them; when sendRequests returns nil the pending
\* batch is empty; and a flush of an empty batch opens no connection, sends
\* nothing and returns.
C21_AtMostOnce ==
    [][/\ Increasing(sent')
       /\ LET all == Concat(flushes')
          IN /\ Len(all) <= Len(emitted')
             /\ all = SubSeq(emitted', 1, Len(all))
             /\ Range(sent') \subseteq 1..Len(all)
       /\ (pc = "send" /\ pc' \in {"walk", "loop"}) => reqs' = <<>>
       /\ (pc = "send" /\ reqs = <<>>) =>
             /\ conn' = "none" /\ wire' = NoMsg
             /\ UNCHANGED <<flushes, sent, emitted, srvVars>>
             /\ pc' # pc => pc' \in {"walk", "loop"}]_vars

\* Two batches were flushed and returned nil, every emitted request was
\* sent, and the same request value was emitted twice.
C21_Witness ==
    /\ pc = "loop" /\ reqs = <<>>
    /\ Len(flushes) = 2
    /\ Len(sent) = Len(emitted)
    /\ \E i, j \in DOMAIN emitted : i < j /\ emitted[i] = emitted[j]

=============================================================================
